---- MODULE Spec2Model ----
(***************************************************************************)
(* HPKE setup and key schedule (src/src/setup.rs) with the KEM, labeled    *)
(* KDF, operation modes and AEAD context it is wired to.                   *)
(*                                                                         *)
(* Octet strings are sequences of numbers 0..255.  The outputs of the      *)
(* hash-based primitives (HKDF extract / expand, AEAD ciphertexts and      *)
(* tags) are terms: records naming the primitive and its inputs, so two    *)
(* outputs are equal exactly when the primitive and all inputs are equal.  *)
(* The Diffie-Hellman group is computed: a prime-order subgroup of the     *)
(* integers modulo GroupP, with the point 0 as the low-order point whose   *)
(* exchange is all-zero.                                                   *)
(***************************************************************************)
EXTENDS Integers, Sequences, FiniteSets, TLC

\* ------------------------------------------------------------------ bounds

\* Private scalars are 1..MaxKey.
MaxKey == 2
\* Width in bits of the sequence counter seq (stands for the 64 of u64).
SeqBits == 2
\* Width in bits of the encoded sequence number (stands for 8*Nn = 96, which
\* is more than the width of seq).
NonceBits == 3

\* ------------------------------------------------- cipher-suite registry

KEM_ID == 32
Npk == 32
Nzz == 32
Nn == 12

KdfNames == {"HkdfSha256", "HkdfSha384", "HkdfSha512"}
AeadNames == {"AesGcm128", "AesGcm256", "ChaCha20Poly1305"}

KDF_ID(kdf) == CASE kdf = "HkdfSha256" -> 1
                 [] kdf = "HkdfSha384" -> 2
                 [] kdf = "HkdfSha512" -> 3

Nh(kdf) == CASE kdf = "HkdfSha256" -> 32
              [] kdf = "HkdfSha384" -> 48
              [] kdf = "HkdfSha512" -> 64

AEAD_ID(aead) == CASE aead = "AesGcm128" -> 1
                   [] aead = "AesGcm256" -> 2
                   [] aead = "ChaCha20Poly1305" -> 3

Nk(aead) == CASE aead = "AesGcm128" -> 16
              [] aead = "AesGcm256" -> 32
              [] aead = "ChaCha20Poly1305" -> 32

\* ------------------------------------------------------------ octet helpers

\* byteorder::WriteBytesExt::write_u16::<BigEndian>
write_u16_be(n) == << (n \div 256) % 256, n % 256 >>

\* byteorder::WriteBytesExt::write_u8
write_u8(n) == << n % 256 >>

\* util::static_zeros: Nh zero octets
static_zeros(kdf) == [i \in 1..Nh(kdf) |-> 0]

\* Little-endian encoding of n in len octets (n below 2^31: the octets
\* after the fourth are zero)
le_bytes(n, len) ==
    [i \in 1..len |-> IF i > 4 THEN 0 ELSE (n \div (256 ^ (i - 1))) % 256]

RECURSIVE le_value(_)
le_value(bytes) == IF bytes = << >> THEN 0
                   ELSE Head(bytes) + 256 * le_value(Tail(bytes))

\* ------------------------------------------------------------------- KEX

\* The group: the subgroup of prime order 11 of the units modulo GroupP,
\* generated by GroupG.
GroupP == 23
GroupG == 2

RECURSIVE pow_mod(_, _)
pow_mod(b, e) == IF e = 0 THEN 1 ELSE (b * pow_mod(b, e - 1)) % GroupP

PrivateKeys == 1..MaxKey

\* KeyExchange::sk_to_pk
sk_to_pk(sk) == pow_mod(GroupG, sk)

\* The low-order point: every exchange with it is all-zero.
LowOrderPk == 0

PublicKeys == {sk_to_pk(sk) : sk \in PrivateKeys} \cup {LowOrderPk}

\* Marshallable::marshal of a public key: Npk octets
marshal(pk) == le_bytes(pk, Npk)

Ok(v) == [ok |-> TRUE, val |-> v]
Err(e) == [ok |-> FALSE, err |-> e]

\* A panic: a failed unwrap(), expect() or assertion
Panic(msg) == [ok |-> FALSE, panic |-> msg]
IsPanic(r) == "panic" \in DOMAIN r

\* Result::unwrap: the Ok, or a panic
ResultUnwrap(r) ==
    IF r.ok THEN r ELSE Panic("called Result::unwrap() on an Err value: " \o r.err)

InvalidEncoding == "InvalidEncoding"

\* Unmarshallable::unmarshal of a key: only from Npk octets
unmarshal(bytes) ==
    IF Len(bytes) # Npk THEN Err(InvalidEncoding) ELSE Ok(le_value(bytes))

InvalidKeyExchange == "InvalidKeyExchange"

\* KeyExchange::kex: fails exactly when the exchange is all-zero
kex(sk, pk) ==
    LET res == pow_mod(pk, sk)
    IN  IF res = 0 THEN Err(InvalidKeyExchange) ELSE Ok(res)

\* ------------------------------------------------------------ labeled KDF

\* Kdf extract (HKDF-Extract over the KDF's hash)
extract(kdf, salt, ikm) ==
    [op |-> "extract", kdf |-> kdf, salt |-> salt, ikm |-> ikm]

\* Kdf expand (HKDF-Expand): fails when more than 255*Nh octets are asked
expand(kdf, prk, info, len) ==
    IF len > 255 * Nh(kdf) THEN Err("KdfOutputTooLong")
    ELSE Ok([op |-> "expand", kdf |-> kdf, prk |-> prk, info |-> info, len |-> len])

\* kdf::labeled_extract
labeled_extract(kdf, salt, label, ikm) ==
    extract(kdf, salt, [tag |-> "RFCXXXX ", label |-> label, ikm |-> ikm])

\* kdf::LabeledExpand::labeled_expand
labeled_expand(kdf, prk, label, info, len) ==
    expand(kdf, prk,
           [len |-> write_u16_be(len), tag |-> "RFCXXXX ", label |-> label, info |-> info],
           len)

\* ------------------------------------------------------- operation modes

None == << >>
Some(x) == << x >>
IsSome(o) == Len(o) = 1
\* Option::unwrap: the value, or a panic on None
Unwrap(o) == IF o = None THEN Panic("called Option::unwrap() on a None value") ELSE o[1]

\* op_mode::PskBundle: a PSK of Nh octets and an application-chosen id.
\* Fill 0 with the empty id is the bundle equal to the defaults of a mode
\* without PSK.
PskBundle(kdf, fill, id) == [psk |-> [i \in 1..Nh(kdf) |-> fill], psk_id |-> id]
PskBundles(kdf) == {PskBundle(kdf, 0, << >>), PskBundle(kdf, 7, << 1 >>)}

\* A sender identity keypair (sk, pk) with pk = sk_to_pk(sk)
Keypair(sk) == [sk |-> sk, pk |-> sk_to_pk(sk)]

\* op_mode::OpModeS
OpModeS_Base == [kind |-> "Base", bundle |-> None, id |-> None]
OpModeS_Psk(b) == [kind |-> "Psk", bundle |-> Some(b), id |-> None]
OpModeS_Auth(kp) == [kind |-> "Auth", bundle |-> None, id |-> Some(kp)]
OpModeS_AuthPsk(kp, b) == [kind |-> "AuthPsk", bundle |-> Some(b), id |-> Some(kp)]

\* op_mode::OpModeR: the identity is the sender's public key only
OpModeR_Base == [kind |-> "Base", bundle |-> None, id |-> None]
OpModeR_Psk(b) == [kind |-> "Psk", bundle |-> Some(b), id |-> None]
OpModeR_Auth(pk) == [kind |-> "Auth", bundle |-> None, id |-> Some(pk)]
OpModeR_AuthPsk(pk, b) == [kind |-> "AuthPsk", bundle |-> Some(b), id |-> Some(pk)]

\* OpMode::mode_id
mode_id(mode) == CASE mode.kind = "Base" -> 0
                   [] mode.kind = "Psk" -> 1
                   [] mode.kind = "Auth" -> 2
                   [] mode.kind = "AuthPsk" -> 3

\* OpMode::get_psk_bytes: the PSK, or Nh zero octets without one
get_psk_bytes(kdf, mode) ==
    IF mode.kind \in {"Psk", "AuthPsk"} THEN Unwrap(mode.bundle).psk
    ELSE static_zeros(kdf)

\* OpMode::get_psk_id: the PSK id, or the empty string without one
get_psk_id(mode) ==
    IF mode.kind \in {"Psk", "AuthPsk"} THEN Unwrap(mode.bundle).psk_id
    ELSE << >>

\* OpModeS::get_sender_id_keypair
get_sender_id_keypair(mode) ==
    IF mode.kind \in {"Auth", "AuthPsk"} THEN mode.id ELSE None

\* OpModeR::get_pk_sender_id
get_pk_sender_id(mode) ==
    IF mode.kind \in {"Auth", "AuthPsk"} THEN mode.id ELSE None

\* ------------------------------------------------------------------- KEM

\* The KDF of X25519HkdfSha256
KemKdf == "HkdfSha256"

\* kem: shared_secret = LabeledExpand(LabeledExtract(zero, "dh", dh), "prk", kem_context, Nzz)
extract_and_expand(dh, kem_context) ==
    LET prk == labeled_extract(KemKdf, static_zeros(KemKdf), "dh", dh)
    IN  labeled_expand(KemKdf, prk, "prk", kem_context, Nzz).val

\* encap_with_eph handing back the recipient's key as the encapped key
encap_with_eph_enc_recip(pk_recip, sender_id_keypair, sk_eph) ==
    LET pk_eph == sk_to_pk(sk_eph)
        dh1 == kex(sk_eph, pk_recip)
        enc == marshal(pk_eph)
    IN  IF ~dh1.ok THEN dh1
        ELSE IF IsSome(sender_id_keypair)
        THEN LET kp == Unwrap(sender_id_keypair)
                 dh2 == kex(kp.sk, pk_recip)
             IN  IF ~dh2.ok THEN dh2
                 ELSE Ok([shared_secret |->
                              extract_and_expand(marshal(dh1.val) \o marshal(dh2.val),
                                                 enc \o marshal(pk_recip) \o marshal(kp.pk)),
                          encapped_key |-> pk_recip])
        ELSE Ok([shared_secret |->
                     extract_and_expand(marshal(dh1.val), enc \o marshal(pk_recip)),
                 encapped_key |-> pk_recip])

\* kem::encap_with_eph(pk_recip, sender_id_keypair, sk_eph)
encap_with_eph(pk_recip, sender_id_keypair, sk_eph) ==
    LET pk_eph == sk_to_pk(sk_eph)
        dh1 == kex(sk_eph, pk_recip)
        enc == marshal(pk_eph)
    IN  IF ~dh1.ok THEN dh1
        ELSE IF IsSome(sender_id_keypair)
        THEN LET kp == Unwrap(sender_id_keypair)
                 dh2 == kex(kp.sk, pk_recip)
             IN  IF ~dh2.ok THEN dh2
                 ELSE Ok([shared_secret |->
                              extract_and_expand(marshal(dh1.val) \o marshal(dh2.val),
                                                 enc \o marshal(pk_recip) \o marshal(kp.pk)),
                          encapped_key |-> pk_eph])
        ELSE Ok([shared_secret |->
                     extract_and_expand(marshal(dh1.val), enc \o marshal(pk_recip)),
                 encapped_key |-> pk_eph])

\* kem::encap: draws the ephemeral secret from the csprng
encap(pk_recip, sender_id_keypair, csprng) ==
    encap_with_eph(pk_recip, sender_id_keypair, csprng)

\* kem::decap(sk_recip, pk_sender_id, encapped_key)
decap(sk_recip, pk_sender_id, encapped_key) ==
    LET dh1 == kex(sk_recip, encapped_key)
        enc == marshal(encapped_key)
        pk_recip == sk_to_pk(sk_recip)
    IN  IF ~dh1.ok THEN dh1
        ELSE IF IsSome(pk_sender_id)
        THEN LET pk_id == Unwrap(pk_sender_id)
                 dh2 == kex(sk_recip, pk_id)
             IN  IF ~dh2.ok THEN dh2
                 ELSE Ok(extract_and_expand(marshal(dh1.val) \o marshal(dh2.val),
                                            enc \o marshal(pk_recip) \o marshal(pk_id)))
        ELSE Ok(extract_and_expand(marshal(dh1.val), enc \o marshal(pk_recip)))

\* ---------------------------------------------------------- key schedule

\* aead::AeadCtx::new: a fresh context, seq = 0
AeadCtx_new(key, nonce, exporter_secret) ==
    [key |-> key, base_nonce |-> nonce, exporter_secret |-> exporter_secret, seq |-> 0]

\* GenericArray::as_slice of a digest: Nh octets.  A digest is opaque, so its
\* octets are symbols: each one names its position, and the first one the
\* digest it belongs to; two slices are equal exactly when the digests are.
as_slice(kdf, digest) ==
    [i \in 1..Nh(kdf) |-> [at |-> i, of |-> IF i = 1 THEN Some(digest) ELSE None]]

\* context_bytes leaving the application info out of the transcript
context_bytes_no_info(aead, kdf, mode, info) ==
    LET zeros == static_zeros(kdf)
        psk_id_hash == labeled_extract(kdf, zeros, "pskID_hash", get_psk_id(mode))
        info_hash == labeled_extract(kdf, zeros, "info", << >>)
    IN  write_u16_be(KEM_ID) \o write_u16_be(KDF_ID(kdf)) \o write_u16_be(AEAD_ID(aead))
        \o write_u8(mode_id(mode)) \o as_slice(kdf, psk_id_hash) \o as_slice(kdf, info_hash)

\* context_bytes in the field order of the HPKEContext struct: mode first
context_bytes_mode_first(aead, kdf, mode, info) ==
    LET zeros == static_zeros(kdf)
        psk_id_hash == labeled_extract(kdf, zeros, "pskID_hash", get_psk_id(mode))
        info_hash == labeled_extract(kdf, zeros, "info", info)
    IN  write_u8(mode_id(mode)) \o write_u16_be(KEM_ID) \o write_u16_be(KDF_ID(kdf))
        \o write_u16_be(AEAD_ID(aead)) \o as_slice(kdf, psk_id_hash) \o as_slice(kdf, info_hash)

\* context_bytes leaving the mode identifier out of the transcript
context_bytes_no_mode(aead, kdf, mode, info) ==
    LET zeros == static_zeros(kdf)
        psk_id_hash == labeled_extract(kdf, zeros, "pskID_hash", get_psk_id(mode))
        info_hash == labeled_extract(kdf, zeros, "info", info)
    IN  write_u16_be(KEM_ID) \o write_u16_be(KDF_ID(kdf)) \o write_u16_be(AEAD_ID(aead))
        \o write_u8(0) \o as_slice(kdf, psk_id_hash) \o as_slice(kdf, info_hash)

\* The context transcript of derive_enc_ctx (setup.rs 55-73)
context_bytes(aead, kdf, mode, info) ==
    LET zeros == static_zeros(kdf)
        psk_id_hash == labeled_extract(kdf, zeros, "pskID_hash", get_psk_id(mode))
        info_hash == labeled_extract(kdf, zeros, "info", info)
    IN  write_u16_be(KEM_ID) \o write_u16_be(KDF_ID(kdf)) \o write_u16_be(AEAD_ID(aead))
        \o write_u8(mode_id(mode)) \o as_slice(kdf, psk_id_hash) \o as_slice(kdf, info_hash)

\* derive_enc_ctx expanding the exporter secret under the label of the key
derive_enc_ctx_exp_label(aead, kdf, mode, shared_secret, info) ==
    LET ctx == context_bytes(aead, kdf, mode, info)
        extracted_psk == labeled_extract(kdf, static_zeros(kdf), "psk_hash",
                                         get_psk_bytes(kdf, mode))
        secret_ctx == labeled_extract(kdf, extracted_psk, "zz", shared_secret)
        key == labeled_expand(kdf, secret_ctx, "key", ctx, Nk(aead))
        nonce == labeled_expand(kdf, secret_ctx, "nonce", ctx, Nn)
        exporter_secret == labeled_expand(kdf, secret_ctx, "key", ctx, Nh(kdf))
    IN  IF ~key.ok THEN Panic("aead key len is way too big")
        ELSE IF ~nonce.ok THEN Panic("nonce len is way too big")
        ELSE IF ~exporter_secret.ok THEN Panic("exporter secret len is way too big")
        ELSE Ok(AeadCtx_new(key.val, nonce.val, exporter_secret.val))

\* derive_enc_ctx asking for an exporter secret of 256 digest blocks
derive_enc_ctx_long_exp(aead, kdf, mode, shared_secret, info) ==
    LET ctx == context_bytes(aead, kdf, mode, info)
        extracted_psk == labeled_extract(kdf, static_zeros(kdf), "psk_hash",
                                         get_psk_bytes(kdf, mode))
        secret_ctx == labeled_extract(kdf, extracted_psk, "zz", shared_secret)
        key == labeled_expand(kdf, secret_ctx, "key", ctx, Nk(aead))
        nonce == labeled_expand(kdf, secret_ctx, "nonce", ctx, Nn)
        exporter_secret == labeled_expand(kdf, secret_ctx, "exp", ctx, 256 * Nh(kdf))
    IN  IF ~key.ok THEN Panic("aead key len is way too big")
        ELSE IF ~nonce.ok THEN Panic("nonce len is way too big")
        ELSE IF ~exporter_secret.ok THEN Panic("exporter secret len is way too big")
        ELSE Ok(AeadCtx_new(key.val, nonce.val, exporter_secret.val))

\* setup::derive_enc_ctx; a failed expect() is a panic
derive_enc_ctx(aead, kdf, mode, shared_secret, info) ==
    LET ctx == context_bytes(aead, kdf, mode, info)
        extracted_psk == labeled_extract(kdf, static_zeros(kdf), "psk_hash",
                                         get_psk_bytes(kdf, mode))
        secret_ctx == labeled_extract(kdf, extracted_psk, "zz", shared_secret)
        key == labeled_expand(kdf, secret_ctx, "key", ctx, Nk(aead))
        nonce == labeled_expand(kdf, secret_ctx, "nonce", ctx, Nn)
        exporter_secret == labeled_expand(kdf, secret_ctx, "exp", ctx, Nh(kdf))
    IN  IF ~key.ok THEN Panic("aead key len is way too big")
        ELSE IF ~nonce.ok THEN Panic("nonce len is way too big")
        ELSE IF ~exporter_secret.ok THEN Panic("exporter secret len is way too big")
        ELSE Ok(AeadCtx_new(key.val, nonce.val, exporter_secret.val))

\* setup_sender running the key schedule over an empty info
setup_sender_no_info(aead, kdf, mode, pk_recip, info, csprng) ==
    LET sender_id_keypair == get_sender_id_keypair(mode)
        kem_res == encap(pk_recip, sender_id_keypair, csprng)
    IN  IF ~kem_res.ok THEN kem_res
        ELSE LET enc_ctx == derive_enc_ctx(aead, kdf, mode, kem_res.val.shared_secret, << >>)
             IN  IF ~enc_ctx.ok THEN enc_ctx
                 ELSE Ok([encapped_key |-> kem_res.val.encapped_key, ctx |-> enc_ctx.val])

\* setup_sender always doing the unauthenticated encapsulation
setup_sender_no_auth(aead, kdf, mode, pk_recip, info, csprng) ==
    LET kem_res == encap(pk_recip, None, csprng)
    IN  IF ~kem_res.ok THEN kem_res
        ELSE LET enc_ctx == derive_enc_ctx(aead, kdf, mode, kem_res.val.shared_secret, info)
             IN  IF ~enc_ctx.ok THEN enc_ctx
                 ELSE Ok([encapped_key |-> kem_res.val.encapped_key, ctx |-> enc_ctx.val])

\* setup::setup_sender: Ok((encapped_key, ctx)), or the key exchange's error
setup_sender(aead, kdf, mode, pk_recip, info, csprng) ==
    LET sender_id_keypair == get_sender_id_keypair(mode)
        kem_res == encap(pk_recip, sender_id_keypair, csprng)
    IN  IF ~kem_res.ok THEN kem_res
        ELSE LET enc_ctx == derive_enc_ctx(aead, kdf, mode, kem_res.val.shared_secret, info)
             IN  IF ~enc_ctx.ok THEN enc_ctx
                 ELSE Ok([encapped_key |-> kem_res.val.encapped_key, ctx |-> enc_ctx.val])

\* setup_receiver never handing the sender's identity key to decap
setup_receiver_no_auth(aead, kdf, mode, sk_recip, encapped_key, info) ==
    LET kem_res == decap(sk_recip, None, encapped_key)
    IN  IF ~kem_res.ok THEN kem_res
        ELSE derive_enc_ctx(aead, kdf, mode, kem_res.val, info)

\* setup_receiver unwrapping the decapsulation instead of propagating its error
setup_receiver_unwrap(aead, kdf, mode, sk_recip, encapped_key, info) ==
    LET pk_sender_id == get_pk_sender_id(mode)
        kem_res == decap(sk_recip, pk_sender_id, encapped_key)
    IN  IF ~kem_res.ok THEN Panic("called unwrap on an Err value")
        ELSE derive_enc_ctx(aead, kdf, mode, kem_res.val, info)

\* setup::setup_receiver: Ok(ctx), or the key exchange's error
setup_receiver(aead, kdf, mode, sk_recip, encapped_key, info) ==
    LET pk_sender_id == get_pk_sender_id(mode)
        kem_res == decap(sk_recip, pk_sender_id, encapped_key)
    IN  IF ~kem_res.ok THEN kem_res
        ELSE derive_enc_ctx(aead, kdf, mode, kem_res.val, info)

\* ----------------------------------------------------------- AEAD context

SeqOverflow == "SeqOverflow"
AuthenticationFailed == "AuthenticationFailed"

\* The sequence number at which seal and open refuse: 2^(8*Nn) - 1
SeqLimit == (2 ^ NonceBits) - 1

\* The last value of the 64-bit counter seq
SeqMax == (2 ^ SeqBits) - 1

\* encode_big_endian(seq, Nn): the low bits of seq in Nn octets, most
\* significant first
be_encode(seq, len) ==
    LET low == seq % (2 ^ NonceBits)
    IN  [i \in 1..len |-> IF len - i > 3 THEN 0 ELSE (low \div (256 ^ (len - i))) % 256]

\* nonce = base_nonce XOR encode_big_endian(seq, Nn)
mix_nonce(base_nonce, seq) ==
    [op |-> "xor", base |-> base_nonce, seq |-> be_encode(seq, Nn)]

\* The size of an AEAD tag in octets
Nt == 16

\* The octets of an opaque value, n of them: each one names its position,
\* and the first one the value it belongs to
opaque_octets(value, n) ==
    [i \in 1..n |-> [at |-> i, of |-> IF i = 1 THEN Some(value) ELSE None]]

\* n octets that belong to no AEAD output
zero_octets(n) == [i \in 1..n |-> [at |-> i, of |-> None]]

\* Aead seal(key, nonce, aad, plaintext) -> (ciphertext, tag): a ciphertext
\* as long as the plaintext and a tag of Nt octets
aead_seal(aead, key, nonce, aad, pt) ==
    LET ct == [op |-> "ciphertext", aead |-> aead, key |-> key, nonce |-> nonce, pt |-> pt]
        tag == [op |-> "tag", aead |-> aead, key |-> key, nonce |-> nonce,
                aad |-> aad, ct |-> ct]
    IN  [ciphertext |-> opaque_octets(ct, Len(pt)), tag |-> opaque_octets(tag, Nt)]

\* Aead open(key, nonce, aad, ciphertext, tag) -> plaintext or failure:
\* the plaintext when the tag is the one a seal with these key, nonce and
\* aad gave for this ciphertext
aead_open(aead, key, nonce, aad, ct, tag) ==
    IF Len(tag) # Nt \/ tag[1].of = None
    THEN Err(AuthenticationFailed)
    ELSE LET t == Unwrap(tag[1].of)
         IN  IF t.op # "tag"
             THEN Err(AuthenticationFailed)
             ELSE IF /\ t = [op |-> "tag", aead |-> aead, key |-> key, nonce |-> nonce,
                             aad |-> aad, ct |-> t.ct]
                     /\ tag = opaque_octets(t, Nt)
                     /\ ct = opaque_octets(t.ct, Len(t.ct.pt))
                  THEN Ok(t.ct.pt)
                  ELSE Err(AuthenticationFailed)

\* "increment seq" on the 64-bit counter: at its last value the addition
\* panics in a build with overflow checks and wraps to 0 in one without
increment_seq(seq, checks) ==
    IF seq = SeqMax
    THEN IF checks THEN Panic("attempt to add with overflow") ELSE Ok(0)
    ELSE Ok(seq + 1)

\* seal that does not advance the counter
ctx_seal_keeps_seq(aead, ctx, aad, pt, checks) ==
    IF ctx.seq = SeqLimit
    THEN [res |-> Err(SeqOverflow), ctx |-> ctx, nonce |-> None]
    ELSE LET nonce == mix_nonce(ctx.base_nonce, ctx.seq)
         IN  [res |-> Ok(aead_seal(aead, ctx.key, nonce, aad, pt)),
              ctx |-> ctx,
              nonce |-> Some(nonce)]

\* AeadCtx::seal: what is returned, the context afterwards and the nonce
\* the AEAD was called with
ctx_seal(aead, ctx, aad, pt, checks) ==
    IF ctx.seq = SeqLimit
    THEN [res |-> Err(SeqOverflow), ctx |-> ctx, nonce |-> None]
    ELSE LET nonce == mix_nonce(ctx.base_nonce, ctx.seq)
             sealed == aead_seal(aead, ctx.key, nonce, aad, pt)
             next == increment_seq(ctx.seq, checks)
         IN  IF IsPanic(next)
             THEN [res |-> next, ctx |-> ctx, nonce |-> Some(nonce)]
             ELSE [res |-> Ok(sealed),
                   ctx |-> [ctx EXCEPT !.seq = next.val],
                   nonce |-> Some(nonce)]

\* open that does not advance the counter
ctx_open_keeps_seq(aead, ctx, aad, ct, tag, per_attempt, checks) ==
    IF ctx.seq = SeqLimit
    THEN [res |-> Err(SeqOverflow), ctx |-> ctx, nonce |-> None]
    ELSE LET nonce == mix_nonce(ctx.base_nonce, ctx.seq)
         IN  [res |-> aead_open(aead, ctx.key, nonce, aad, ct, tag),
              ctx |-> ctx,
              nonce |-> Some(nonce)]

\* AeadCtx::open; per_attempt tells whether a failed attempt advances seq
ctx_open(aead, ctx, aad, ct, tag, per_attempt, checks) ==
    IF ctx.seq = SeqLimit
    THEN [res |-> Err(SeqOverflow), ctx |-> ctx, nonce |-> None]
    ELSE LET nonce == mix_nonce(ctx.base_nonce, ctx.seq)
             res == aead_open(aead, ctx.key, nonce, aad, ct, tag)
             advances == res.ok \/ per_attempt
             next == increment_seq(ctx.seq, checks)
         IN  IF advances /\ IsPanic(next)
             THEN [res |-> next, ctx |-> ctx, nonce |-> Some(nonce)]
             ELSE [res |-> res,
                   ctx |-> IF advances THEN [ctx EXCEPT !.seq = next.val] ELSE ctx,
                   nonce |-> Some(nonce)]

\* AeadCtx::export = LabeledExpand(exporter_secret, "sec", exporter_context, L)
ctx_export(kdf, ctx, exporter_context, len) ==
    labeled_expand(kdf, ctx.exporter_secret, "sec", exporter_context, len)

\* ------------------------------------------------------------ input sets

Suites == [aead : AeadNames, kdf : KdfNames]

\* Application info strings, the empty one included
Infos == {<< >>, << 1 >>}

OpModesS(kdf) ==
    {OpModeS_Base}
    \cup {OpModeS_Psk(b) : b \in PskBundles(kdf)}
    \cup {OpModeS_Auth(Keypair(sk)) : sk \in PrivateKeys}
    \cup {OpModeS_AuthPsk(Keypair(sk), b) : sk \in PrivateKeys, b \in PskBundles(kdf)}

OpModesR(kdf) ==
    {OpModeR_Base}
    \cup {OpModeR_Psk(b) : b \in PskBundles(kdf)}
    \cup {OpModeR_Auth(pk) : pk \in PublicKeys}
    \cup {OpModeR_AuthPsk(pk, b) : pk \in PublicKeys, b \in PskBundles(kdf)}

\* test_util::gen_op_mode_pair: the receiver mode agreeing with a sender mode
matching_mode(modeS) ==
    [kind |-> modeS.kind, bundle |-> modeS.bundle,
     id |-> IF IsSome(modeS.id) THEN Some(Unwrap(modeS.id).pk) ELSE None]

\* The sender modes of the AEAD runs: one of each kind
ModesA(kdf) ==
    {OpModeS_Base,
     OpModeS_Psk(PskBundle(kdf, 7, << 1 >>)),
     OpModeS_Auth(Keypair(1)),
     OpModeS_AuthPsk(Keypair(1), PskBundle(kdf, 7, << 1 >>))}

\* The suites of the AEAD runs: all nine, as kat_test dispatches them
SuitesA == Suites

\* The messages of a test vector: a plaintext and its associated data,
\* empty or not
Messages == << [pt |-> << 1 >>, aad |-> << >>], [pt |-> << 2 >>, aad |-> << 5 >> ] >>

\* The message the vector lists after n others
NextMessage(n) == Messages[(n % Len(Messages)) + 1]
ExporterContexts == {<< >>, << 3 >>}
ExportLens == {16, 32, 64}

\* ------------------------------------------------------------------ state

VARIABLES
    pc,      \* "init", "sent", "received"; "panic" once a run has panicked
    suite,   \* the cipher suite (A, Kdf) the calls are instantiated with
    sIn,     \* Some(arguments of the setup_sender call)
    sOut,    \* Some(what setup_sender returned); its context is the sender's
    rIn,     \* Some(arguments of the setup_receiver call)
    rOut,    \* Some(what setup_receiver returned): the receiver's context
    build,   \* Some(whether the build checks integer overflow), once an
             \* increment of seq has overflowed
    wire,    \* the test vector's encryptions not yet handed to the receiver
    lastS,   \* outcome of the sender's last seal: "none", "ok", "panic" or the error
    lastR,   \* Some(result of the receiver's last open, and the plaintext expected)
    lastPkt, \* Some(the packet last handed to the receiver)
    inOrder, \* the receiver was handed exactly the sealed packets, in order
    usedS,   \* the nonces of the sender's AEAD seals, in order
    usedR,   \* the nonces of the receiver's AEAD opens, failed ones too, in order
    exp,     \* Some(the last export: side, arguments, result, value listed)
    kat,     \* Some(the test vector of a known-answer run and its encap result)
    ks       \* the runs of the key schedule alone: arguments and result, in order

vars == << pc, suite, build, sIn, sOut, rIn, rOut, wire, lastS, lastR, lastPkt, inOrder,
           usedS, usedR, exp, kat, ks >>

aeadVars == << wire, lastS, lastR, lastPkt, inOrder, usedS, usedR, exp >>

Init ==
    /\ pc = "init"
    /\ suite \in Suites
    /\ build = None
    /\ sIn = None
    /\ sOut = None
    /\ rIn = None
    /\ rOut = None
    /\ wire = << >>
    /\ lastS = "none"
    /\ lastR = None
    /\ lastPkt = None
    /\ inOrder = TRUE
    /\ usedS = << >>
    /\ usedR = << >>
    /\ exp = None
    /\ kat = None
    /\ ks = << >>

\* A call of setup_sender with arguments from the given sets; sk_eph is
\* what the csprng yields
SetupSenderOn(modes, pk_recips, infos, sk_ephs) ==
    /\ pc = "init"
    /\ \E mode \in modes, pk_recip \in pk_recips, info \in infos, sk_eph \in sk_ephs :
          /\ sIn' = Some([mode |-> mode, pk_recip |-> pk_recip, info |-> info,
                          sk_eph |-> sk_eph])
          /\ sOut' = Some(setup_sender(suite.aead, suite.kdf, mode, pk_recip, info, sk_eph))
    /\ pc' = "sent"
    /\ UNCHANGED << suite, build, rIn, rOut, aeadVars, kat, ks >>

\* A call of setup_receiver with arguments from the given sets
SetupReceiverOn(modes, sk_recips, encapped_keys, infos) ==
    /\ pc = "sent"
    /\ \E mode \in modes, sk_recip \in sk_recips, encapped_key \in encapped_keys,
          info \in infos :
          /\ rIn' = Some([mode |-> mode, sk_recip |-> sk_recip,
                          encapped_key |-> encapped_key, info |-> info])
          /\ rOut' = Some(setup_receiver(suite.aead, suite.kdf, mode, sk_recip,
                                         encapped_key, info))
    /\ pc' = "received"
    /\ UNCHANGED << suite, build, sIn, sOut, aeadVars, kat, ks >>

SetupSender == SetupSenderOn(OpModesS(suite.kdf), PublicKeys, Infos, PrivateKeys)

SetupReceiver == SetupReceiverOn(OpModesR(suite.kdf), PrivateKeys, PublicKeys, Infos)


\* The setup calls of the AEAD runs: the receiver with the inputs that
\* match the sender's
SetupSenderA ==
    SetupSenderOn(ModesA(suite.kdf), {sk_to_pk(1)}, {<< 1 >>}, {2})

SetupReceiverA ==
    /\ sOut # None
    /\ Unwrap(sOut).ok
    /\ SetupReceiverOn({matching_mode(Unwrap(sIn).mode)}, {1},
                       {Unwrap(sOut).val.encapped_key}, {Unwrap(sIn).info})

\* Seals and opens of one context that a run follows
MaxUses == (2 ^ SeqBits) + 1

\* The builds a call may run in: the one build of the run, which shows
\* only when an addition or subtraction of the call overflows
Builds(overflows) ==
    IF build # None THEN {Unwrap(build)}
    ELSE IF overflows THEN BOOLEAN ELSE {FALSE}

\* The build after a call
BuildSeen(overflows, checks) == IF overflows THEN Some(checks) ELSE build

\* AeadTag::unmarshal: only from Nt octets
AeadTag_unmarshal(bytes) ==
    IF Len(bytes) # Nt THEN Err(InvalidEncoding) ELSE Ok(bytes)

\* kat_tests.rs 205-217: the vector's ciphertext || tag split into the two;
\* on fewer octets than a tag has, total_len - tag_size panics in a build
\* with overflow checks, and split_at_mut in one without
split_ciphertext(ciphertext_and_tag, checks) ==
    LET total_len == Len(ciphertext_and_tag)
    IN  IF total_len < Nt
        THEN IF checks THEN Panic("attempt to subtract with overflow")
                       ELSE Panic("mid > len")
        ELSE LET tag == ResultUnwrap(AeadTag_unmarshal(
                            SubSeq(ciphertext_and_tag, total_len - Nt + 1, total_len)))
             IN  IF IsPanic(tag) THEN tag
                 ELSE Ok([ciphertext |-> SubSeq(ciphertext_and_tag, 1, total_len - Nt),
                          tag |-> tag.val])

\* Encryptions of a vector that no seal gave: one shorter than a tag, one
\* long enough
MalformedEncryptions ==
    {[plaintext |-> << 1 >>, aad |-> << >>, ciphertext |-> zero_octets(n)] : n \in {3, Nt + 1}}

\* The sender seals a message; the encryption joins the ones awaiting the
\* receiver, with the plaintext the receiver is to find
Seal ==
    /\ pc \in {"sent", "received"}
    /\ Unwrap(sOut).ok
    /\ Len(usedS) < MaxUses
    /\ \E checks \in Builds(Unwrap(sOut).val.ctx.seq = SeqMax) :
       LET m == NextMessage(Len(usedS))
           r == ctx_seal(suite.aead, Unwrap(sOut).val.ctx, m.aad, m.pt, checks)
       IN  /\ build' = BuildSeen(Unwrap(sOut).val.ctx.seq = SeqMax, checks)
           /\ sOut' = Some(Ok([Unwrap(sOut).val EXCEPT !.ctx = r.ctx]))
           /\ lastS' = IF r.res.ok THEN "ok"
                       ELSE IF IsPanic(r.res) THEN "panic" ELSE r.res.err
           /\ wire' = IF r.res.ok
                      THEN Append(wire, [plaintext |-> m.pt, aad |-> m.aad,
                                         ciphertext |-> r.res.val.ciphertext
                                                            \o r.res.val.tag])
                      ELSE wire
           /\ usedS' = usedS \o r.nonce
           /\ pc' = IF IsPanic(r.res) THEN "panic" ELSE pc
    /\ exp' = None
    /\ UNCHANGED << suite, sIn, rIn, rOut, lastR, lastPkt, inOrder, usedR, kat, ks >>

\* The receiver splits and opens the given encryption of the vector
\* (kat_tests.rs 205-227); whether a failed attempt advances seq is left
\* open, so both outcomes are possible. A split or an open that fails, or
\* an open that yields another plaintext than the vector's, is a panic
\* and ends the run.
OpenPacket(pkt) ==
    LET ctx == Unwrap(rOut).val
        overflows == Len(pkt.ciphertext) < Nt \/ ctx.seq = SeqMax
    IN  \E per_attempt \in BOOLEAN, checks \in Builds(overflows) :
            LET parts == split_ciphertext(pkt.ciphertext, checks)
            IN  /\ build' = BuildSeen(overflows, checks)
                /\ lastPkt' = Some(pkt)
                /\ IF IsPanic(parts)
                   THEN /\ rOut' = rOut
                        /\ lastR' = Some([res |-> parts, plaintext |-> pkt.plaintext])
                        /\ usedR' = usedR
                        /\ pc' = "panic"
                   ELSE LET r == ctx_open(suite.aead, ctx, pkt.aad, parts.val.ciphertext,
                                          parts.val.tag, per_attempt, checks)
                        IN  /\ rOut' = Some(Ok(r.ctx))
                            /\ lastR' = Some([res |-> r.res, plaintext |-> pkt.plaintext])
                            /\ usedR' = usedR \o r.nonce
                            /\ pc' = IF r.res = Ok(pkt.plaintext) THEN pc ELSE "panic"

\* The receiver is handed the encryption sealed first among those awaiting
Open ==
    /\ pc = "received"
    /\ Unwrap(rOut).ok
    /\ wire # << >>
    /\ OpenPacket(Head(wire))
    /\ wire' = Tail(wire)
    /\ exp' = None
    /\ UNCHANGED << suite, sIn, sOut, rIn, lastS, inOrder, usedS, kat, ks >>

\* The receiver is handed an encryption sealed after one it has not been
\* handed yet
OpenOutOfOrder ==
    /\ pc = "received"
    /\ Unwrap(rOut).ok
    /\ \E i \in 2..Len(wire) :
          /\ OpenPacket(wire[i])
          /\ wire' = SubSeq(wire, 1, i - 1) \o SubSeq(wire, i + 1, Len(wire))
    /\ inOrder' = FALSE
    /\ exp' = None
    /\ UNCHANGED << suite, sIn, sOut, rIn, lastS, usedS, kat, ks >>

\* The receiver is handed an encryption that no seal gave
OpenMalformed ==
    /\ pc = "received"
    /\ Unwrap(rOut).ok
    /\ Len(usedR) < MaxUses
    /\ \E pkt \in MalformedEncryptions : OpenPacket(pkt)
    /\ inOrder' = FALSE
    /\ exp' = None
    /\ UNCHANGED << suite, sIn, sOut, rIn, wire, lastS, usedS, kat, ks >>

\* The receiver is handed again the encryption it was handed last
Replay ==
    /\ pc = "received"
    /\ Unwrap(rOut).ok
    /\ lastPkt # None
    /\ Len(usedR) < MaxUses
    /\ OpenPacket(Unwrap(lastPkt))
    /\ inOrder' = FALSE
    /\ exp' = None
    /\ UNCHANGED << suite, sIn, sOut, rIn, wire, lastS, usedS, kat, ks >>

\* A value that no export gives
WrongExport == [op |-> "none"]

\* The values a vector may list for an export of the receiver: the one the
\* sender's context exports, or another
ListedExports(ec, len) ==
    LET listed == ctx_export(suite.kdf, Unwrap(sOut).val.ctx, ec, len)
    IN  (IF listed.ok THEN {listed.val} ELSE {}) \cup {WrongExport}

\* The sender exports a secret
ExportS ==
    /\ pc = "received"
    /\ Unwrap(sOut).ok
    /\ Unwrap(rOut).ok
    /\ \E ec \in ExporterContexts, len \in ExportLens :
          LET out == ctx_export(suite.kdf, Unwrap(sOut).val.ctx, ec, len)
          IN  /\ exp' = Some([side |-> "S", exporter_context |-> ec, len |-> len,
                              out |-> out, export_val |-> None])
              /\ pc' = IF out.ok THEN pc ELSE "panic"
    /\ UNCHANGED << suite, build, sIn, sOut, rIn, rOut, wire, lastS, lastR, lastPkt,
                    inOrder, usedS, usedR, kat, ks >>

\* The receiver exports a secret, unwraps the result and asserts it to be
\* the value the vector lists (kat_tests.rs 231-235), any number of times
\* in a row
Export ==
    /\ pc = "received"
    /\ Unwrap(sOut).ok
    /\ Unwrap(rOut).ok
    /\ \E ec \in ExporterContexts, len \in ExportLens :
       \E export_val \in ListedExports(ec, len) :
          LET out == ctx_export(suite.kdf, Unwrap(rOut).val, ec, len)
          IN  /\ exp' = Some([side |-> "R", exporter_context |-> ec, len |-> len,
                              out |-> out, export_val |-> Some(export_val)])
              /\ pc' = IF out.ok /\ out.val = export_val THEN pc ELSE "panic"
    /\ UNCHANGED << suite, build, sIn, sOut, rIn, rOut, wire, lastS, lastR, lastPkt,
                    inOrder, usedS, usedR, kat, ks >>

NextAead ==
    \/ SetupSenderA \/ SetupReceiverA \/ Seal
    \/ Open \/ OpenOutOfOrder \/ OpenMalformed \/ Replay
    \/ ExportS \/ Export

InitAead == Init /\ suite \in SuitesA

SpecAead == InitAead /\ [][NextAead]_vars


\* kat_tests::get_and_assert_keypair: both keys unmarshalled, and the public
\* key asserted to be the one of the secret key
get_and_assert_keypair(sk_bytes, pk_bytes) ==
    LET sk == ResultUnwrap(unmarshal(sk_bytes))
        pk == ResultUnwrap(unmarshal(pk_bytes))
    IN  IF ~sk.ok THEN sk
        ELSE IF ~pk.ok THEN pk
        ELSE IF marshal(pk.val) # marshal(sk_to_pk(sk.val))
        THEN Panic("assertion failed: left == right")
        ELSE Ok([sk |-> sk.val, pk |-> pk.val])

\* Option::map of unmarshal(..).unwrap(): Ok(the optional key), or the panic
unmarshal_opt(bytes_opt) ==
    IF ~IsSome(bytes_opt) THEN Ok(None)
    ELSE LET k == ResultUnwrap(unmarshal(bytes_opt[1]))
         IN  IF k.ok THEN Ok(Some(k.val)) ELSE k

\* kat_tests::make_op_mode_r: the public key and the bundle are built first,
\* whatever the mode; the variant is chosen by mode_id alone
make_op_mode_r(id, pk_sender_bytes, psk, psk_id) ==
    LET pk == unmarshal_opt(pk_sender_bytes)
        bundle == IF ~IsSome(psk) THEN Ok(None)
                  ELSE IF ~IsSome(psk_id) THEN Unwrap(psk_id)
                  ELSE Ok(Some([psk |-> psk[1], psk_id |-> psk_id[1]]))
    IN  IF ~pk.ok THEN pk
        ELSE IF ~bundle.ok THEN bundle
        ELSE CASE id = 0 -> Ok(OpModeR_Base)
               [] id = 1 -> IF ~IsSome(bundle.val) THEN Unwrap(bundle.val)
                            ELSE Ok(OpModeR_Psk(bundle.val[1]))
               [] id = 2 -> IF ~IsSome(pk.val) THEN Unwrap(pk.val)
                            ELSE Ok(OpModeR_Auth(pk.val[1]))
               [] id = 3 -> IF ~IsSome(pk.val) THEN Unwrap(pk.val)
                            ELSE IF ~IsSome(bundle.val) THEN Unwrap(bundle.val)
                            ELSE Ok(OpModeR_AuthPsk(pk.val[1], bundle.val[1]))
               [] OTHER -> Panic("Invalid mode ID: " \o ToString(id))

\* The test vectors: the keys of the recipient, of the sender when the mode
\* authenticates, and the ephemeral ones, all marshalled; PSK and PSK id when
\* the mode has them
TestVectors(kdf) ==
    {[mode |-> id,
      sk_recip |-> marshal(skR), pk_recip |-> marshal(sk_to_pk(skR)),
      sk_eph |-> marshal(skE), pk_eph |-> marshal(sk_to_pk(skE)),
      sk_sender |-> IF id \in {2, 3} THEN Some(marshal(skS)) ELSE None,
      pk_sender |-> IF id \in {2, 3} THEN Some(marshal(sk_to_pk(skS))) ELSE None,
      psk |-> IF id \in {1, 3} THEN Some(PskBundle(kdf, 7, << 1 >>).psk) ELSE None,
      psk_id |-> IF id \in {1, 3} THEN Some(<< 1 >>) ELSE None,
      info |-> << 1 >>,
      encapped_key |-> marshal(sk_to_pk(skE))] :
        id \in 0..3, skR \in PrivateKeys, skE \in PrivateKeys, skS \in PrivateKeys}

\* test_case up to the assertion on the encapped key (kat_tests.rs 167-190):
\* Ok(what encap_with_eph returned), or the panic that ends the test
test_case_encap(tv) ==
    LET recip == get_and_assert_keypair(tv.sk_recip, tv.pk_recip)
        eph == get_and_assert_keypair(tv.sk_eph, tv.pk_eph)
        sk_sender == unmarshal_opt(tv.sk_sender)
        pk_sender == unmarshal_opt(tv.pk_sender)
    IN  IF ~recip.ok THEN recip
        ELSE IF ~eph.ok THEN eph
        ELSE IF ~sk_sender.ok THEN sk_sender
        ELSE IF ~pk_sender.ok THEN pk_sender
        ELSE IF IsSome(sk_sender.val) /\ ~IsSome(pk_sender.val) THEN Unwrap(pk_sender.val)
        ELSE LET sender_keypair ==
                     IF IsSome(sk_sender.val)
                     THEN Some([sk |-> sk_sender.val[1], pk |-> pk_sender.val[1]])
                     ELSE None
                 res == encap_with_eph(recip.val.pk, sender_keypair, eph.val.sk)
             IN  IF ~res.ok THEN Panic("encap failed")
                 ELSE IF marshal(res.val.encapped_key) # tv.encapped_key
                 THEN Panic("assertion failed: left == right")
                 ELSE res

\* test_case, first half: the keys are unmarshalled and the encapped key is
\* derived again by encap_with_eph and compared with the vector's
KatEncap ==
    /\ pc = "init"
    /\ \E tv \in TestVectors(suite.kdf) :
          LET res == test_case_encap(tv)
          IN  /\ kat' = Some([tv |-> tv, res |-> res])
              /\ pc' = IF res.ok THEN "kat_encap" ELSE "kat_panic"
    /\ UNCHANGED << suite, build, sIn, sOut, rIn, rOut, aeadVars, ks >>

\* test_case, second half (kat_tests.rs 192-196): the receiver is set up from
\* the test vector and the encapped key just derived
KatSetupReceiver ==
    /\ pc = "kat_encap"
    /\ LET tv == Unwrap(kat).tv
           mode == make_op_mode_r(tv.mode, tv.pk_sender, tv.psk, tv.psk_id)
           sk_recip == unmarshal(tv.sk_recip).val
           encapped_key == Unwrap(kat).res.val.encapped_key
       IN  IF ~mode.ok
           THEN /\ pc' = "kat_panic"
                /\ UNCHANGED << rIn, rOut >>
           ELSE LET out == setup_receiver(suite.aead, suite.kdf, mode.val, sk_recip,
                                          encapped_key, tv.info)
                IN  /\ rIn' = Some([mode |-> mode.val, sk_recip |-> sk_recip,
                                    encapped_key |-> encapped_key, info |-> tv.info])
                    /\ rOut' = Some(out)
                    /\ pc' = IF out.ok THEN "kat_received" ELSE "kat_panic"
    /\ UNCHANGED << suite, build, sIn, sOut, aeadVars, kat, ks >>

NextKat == KatEncap \/ KatSetupReceiver

SpecKat == Init /\ [][NextKat]_vars

\* ---------------------------------------------- the key schedule on its own

\* PSK bundles that differ in the PSK alone, in the PSK id alone, or in both;
\* the all-zero PSK with the empty id is what a mode without PSK stands for
KsPskBundles(kdf) ==
    {PskBundle(kdf, fill, id) : fill \in {0, 7}, id \in {<< >>, << 1 >>}}

\* The modes a sender hands to derive_enc_ctx
KsModesS(kdf) ==
    {OpModeS_Base}
    \cup {OpModeS_Psk(b) : b \in KsPskBundles(kdf)}
    \cup {OpModeS_Auth(Keypair(sk)) : sk \in PrivateKeys}
    \cup {OpModeS_AuthPsk(Keypair(sk), b) : sk \in PrivateKeys, b \in KsPskBundles(kdf)}

\* The modes a receiver hands to derive_enc_ctx
KsModesR(kdf) ==
    {OpModeR_Base}
    \cup {OpModeR_Psk(b) : b \in KsPskBundles(kdf)}
    \cup {OpModeR_Auth(sk_to_pk(sk)) : sk \in PrivateKeys}
    \cup {OpModeR_AuthPsk(sk_to_pk(sk), b) : sk \in PrivateKeys, b \in KsPskBundles(kdf)}

\* Shared secrets as the KEM produces them
SharedSecrets ==
    {encap_with_eph(sk_to_pk(1), None, sk_eph).val.shared_secret : sk_eph \in PrivateKeys}

\* One run of derive_enc_ctx: its arguments, read through the OpMode
\* accessors, and its result
KsRun(mode, shared_secret, info) ==
    [mode_id |-> mode_id(mode),
     psk_bytes |-> get_psk_bytes(suite.kdf, mode),
     psk_id |-> get_psk_id(mode),
     shared_secret |-> shared_secret,
     info |-> info,
     out |-> derive_enc_ctx(suite.aead, suite.kdf, mode, shared_secret, info)]

\* derive_enc_ctx as setup_sender calls it (setup.rs 141)
DeriveEncCtxS ==
    /\ pc = "init"
    /\ \E mode \in KsModesS(suite.kdf), shared_secret \in SharedSecrets, info \in Infos :
          ks' = Append(ks, KsRun(mode, shared_secret, info))
    /\ pc' = "ks_sender"
    /\ UNCHANGED << suite, build, sIn, sOut, rIn, rOut, aeadVars, kat >>

\* derive_enc_ctx as setup_receiver calls it (setup.rs 176)
DeriveEncCtxR ==
    /\ pc = "ks_sender"
    /\ \E mode \in KsModesR(suite.kdf), shared_secret \in SharedSecrets, info \in Infos :
          ks' = Append(ks, KsRun(mode, shared_secret, info))
    /\ pc' = "ks_receiver"
    /\ UNCHANGED << suite, build, sIn, sOut, rIn, rOut, aeadVars, kat >>

NextKs == DeriveEncCtxS \/ DeriveEncCtxR

SpecKs == Init /\ [][NextKs]_vars

Next == SetupSender \/ SetupReceiver

Spec == Init /\ [][Next]_vars

\* ------------------------------------------------------------ state views

SIn == Unwrap(sIn)
RIn == Unwrap(rIn)
SRes == Unwrap(sOut)
RRes == Unwrap(rOut)
SOk == sOut # None /\ SRes.ok
ROk == rOut # None /\ RRes.ok
CtxS == SRes.val.ctx
CtxR == RRes.val

\* test_util::aead_ctx_eq: the two contexts are byte-equal
aead_ctx_eq(c1, c2) ==
    /\ c1.key = c2.key
    /\ c1.base_nonce = c2.base_nonce
    /\ c1.exporter_secret = c2.exporter_secret
    /\ c1.seq = c2.seq

\* The receiver was set up with the inputs that match the sender's
Matching ==
    /\ pc \in {"received", "panic"}
    /\ rIn # None
    /\ SOk
    /\ RIn.mode = matching_mode(SIn.mode)
    /\ sk_to_pk(RIn.sk_recip) = SIn.pk_recip
    /\ RIn.encapped_key = SRes.val.encapped_key
    /\ RIn.info = SIn.info

\* ------------------------------------------------------ setup: C1, C2, C3

\* C1: for every cipher suite and every op-mode, a receiver set up with the
\* matching mode, the private key of pk_recip, the sender's encapped key and
\* the same info succeeds and holds a context byte-equal to the sender's:
\* same key, base_nonce and exporter_secret, and seq = 0 on both.
C1_SetupCorrectness ==
    Matching =>
        /\ ROk
        /\ CtxR.key = CtxS.key
        /\ CtxR.base_nonce = CtxS.base_nonce
        /\ CtxR.exporter_secret = CtxS.exporter_secret
        /\ CtxS.seq = 0
        /\ CtxR.seq = 0

C1_Witness ==
    /\ Matching
    /\ ROk
    /\ SIn.mode.kind = "AuthPsk"
    /\ suite = [aead |-> "AesGcm128", kdf |-> "HkdfSha512"]
    /\ aead_ctx_eq(CtxS, CtxR)

\* How many of info, sk_recip and encapped_key the receiver got changed
ChangedInputs ==
    (IF RIn.info # SIn.info THEN 1 ELSE 0)
    + (IF sk_to_pk(RIn.sk_recip) # SIn.pk_recip THEN 1 ELSE 0)
    + (IF RIn.encapped_key # SRes.val.encapped_key THEN 1 ELSE 0)

BaseSetup ==
    /\ pc = "received"
    /\ SOk
    /\ SIn.mode.kind = "Base"
    /\ RIn.mode.kind = "Base"

\* C2: with a successful Base-mode sender setup, a receiver context built
\* with exactly one of info, sk_recip, encapped_key changed is never
\* byte-equal to the sender's, and the one built with all three unchanged is.
C2_SetupSoundness ==
    BaseSetup =>
        /\ (ChangedInputs = 1 /\ ROk) => ~aead_ctx_eq(CtxS, CtxR)
        /\ ChangedInputs = 0 => (ROk /\ aead_ctx_eq(CtxS, CtxR))

C2_Witness ==
    /\ BaseSetup
    /\ ROk
    /\ ChangedInputs = 1
    /\ sk_to_pk(RIn.sk_recip) # SIn.pk_recip
    /\ ~aead_ctx_eq(CtxS, CtxR)

\* C3: setup_sender and setup_receiver return Ok with a context exactly
\* when encap / decap succeeds; otherwise they return the key exchange's
\* error unchanged, which is InvalidKeyExchange, and nothing else.
C3_OnlyInvalidKeyExchange ==
    /\ sOut # None =>
          LET k == encap(SIn.pk_recip, get_sender_id_keypair(SIn.mode), SIn.sk_eph)
          IN  /\ SRes.ok = k.ok
              /\ SRes.ok => DOMAIN SRes.val = {"encapped_key", "ctx"}
              /\ ~SRes.ok => (SRes = k /\ SRes = Err(InvalidKeyExchange))
    /\ rOut # None =>
          LET k == decap(RIn.sk_recip, get_pk_sender_id(RIn.mode), RIn.encapped_key)
          IN  /\ RRes.ok = k.ok
              /\ RRes.ok => DOMAIN RRes.val = {"key", "base_nonce", "exporter_secret", "seq"}
              /\ ~RRes.ok => (RRes = k /\ RRes = Err(InvalidKeyExchange))

C3_Witness ==
    /\ pc = "received"
    /\ SOk
    /\ RIn.mode.kind = "Auth"
    /\ Unwrap(RIn.mode.id) = LowOrderPk
    /\ RIn.encapped_key # LowOrderPk
    /\ RRes = Err(InvalidKeyExchange)

\* ------------------------------------------------------ key schedule: C10

\* C10: the key schedule never panics: for every cipher suite the three
\* expand lengths Nk, Nn, Nh are at most 2*Nh, within the KDF limit 255*Nh,
\* so no setup call ends in a failed expect(), whatever the mode, PSK, PSK
\* id and info (the empty one included).
C10_NoPanic ==
    /\ Nk(suite.aead) <= 2 * Nh(suite.kdf)
    /\ Nn <= 2 * Nh(suite.kdf)
    /\ Nh(suite.kdf) <= 2 * Nh(suite.kdf)
    /\ 2 * Nh(suite.kdf) <= 255 * Nh(suite.kdf)
    /\ sOut # None => ~IsPanic(SRes)
    /\ rOut # None => ~IsPanic(RRes)

C10_Witness ==
    /\ pc = "received"
    /\ suite = [aead |-> "AesGcm256", kdf |-> "HkdfSha256"]
    /\ SOk /\ ROk
    /\ SIn.mode.kind = "Psk"
    /\ SIn.info = << >>
    /\ RIn.mode.kind = "AuthPsk"

\* ------------------------------------------------- AEAD context: C4, C5

\* C4: after a matching setup, as long as the receiver is handed exactly the
\* sealed encryptions in the order they were sealed, however many of them
\* were sealed before it opens one, every open succeeds and returns the
\* plaintext the vector lists at its place, and the two seq counters
\* advance in lockstep, one per message: the sender is ahead by the
\* encryptions still awaiting the receiver, and the counters are equal
\* after each seal/open pair.
C4_SealOpenLockstep ==
    (Matching /\ ROk /\ inOrder) =>
        /\ lastR # None =>
              /\ Unwrap(lastR).res = Ok(Unwrap(lastR).plaintext)
              /\ Unwrap(lastR).res = Ok(NextMessage(Len(usedR) - 1).pt)
        /\ CtxS.seq = (CtxR.seq + Len(wire)) % (2 ^ SeqBits)
        /\ wire = << >> => CtxS.seq = CtxR.seq
        /\ CtxR.seq = Len(usedR) % (2 ^ SeqBits)

C4_Witness ==
    /\ Matching /\ ROk /\ inOrder
    /\ pc = "received"
    /\ SIn.mode.kind = "AuthPsk"
    /\ Len(usedS) = 4
    /\ CtxS.seq = 0
    /\ Len(usedR) = 2
    /\ CtxR.seq = 2
    /\ Len(wire) = 2
    /\ wire[1].plaintext = << 1 >>
    /\ Unwrap(lastPkt).plaintext = << 2 >>
    /\ Unwrap(lastR).res = Ok(<< 2 >>)

\* What the other side exports for the arguments of the last export
OtherSideExport ==
    LET e == Unwrap(exp)
    IN  ctx_export(suite.kdf, IF e.side = "S" THEN CtxR ELSE CtxS,
                   e.exporter_context, e.len)

\* C5: after a matching setup and any number of seal / open calls on either
\* context, export returns the same octets on both sides for every exporter
\* context and length; an export leaves both contexts as they are, and its
\* result is the labeled expansion of exporter_secret alone.
C5_ExportAgrees ==
    /\ [](Matching /\ ROk =>
            /\ \A ec \in ExporterContexts, len \in ExportLens :
                  /\ ctx_export(suite.kdf, CtxS, ec, len).ok
                  /\ ctx_export(suite.kdf, CtxS, ec, len) = ctx_export(suite.kdf, CtxR, ec, len)
            /\ exp # None =>
                  /\ Unwrap(exp).out.ok
                  /\ Unwrap(exp).out = OtherSideExport
                  /\ Unwrap(exp).out.val.prk = CtxS.exporter_secret
                  /\ Unwrap(exp).out.val.info.info = Unwrap(exp).exporter_context)
    /\ [][(exp' # None /\ exp' # exp) => (sOut' = sOut /\ rOut' = rOut)]_vars

C5_Witness ==
    /\ Matching /\ ROk
    /\ pc = "received"
    /\ exp # None
    /\ Unwrap(exp).side = "R"
    /\ Unwrap(exp).export_val = Some(Unwrap(exp).out.val)
    /\ Unwrap(exp).len = 64
    /\ Unwrap(exp).out.ok
    /\ CtxR.seq = 2
    /\ CtxS.seq = 3
    /\ Len(wire) = 1

\* --------------------------------------------------- encapsulation: C7

KeypairOptions == {None} \cup {Some(Keypair(sk)) : sk \in PrivateKeys}

\* C7: a successful encap_with_eph returns an encapped key whose marshalled
\* octets are marshal(sk_to_pk(sk_eph)), the ephemeral public key of the test
\* vector, whatever the recipient key and with or without a sender identity
\* key.
C7_EncIsEphemeralPk ==
    kat # None =>
        LET tv == Unwrap(kat).tv
            res == Unwrap(kat).res
        IN  /\ res.ok
            /\ marshal(res.val.encapped_key) = tv.encapped_key
            /\ marshal(res.val.encapped_key) = marshal(sk_to_pk(unmarshal(tv.sk_eph).val))
            /\ \A pk \in PublicKeys, kp \in KeypairOptions :
                  LET r == encap_with_eph(pk, kp, unmarshal(tv.sk_eph).val)
                  IN  r.ok => marshal(r.val.encapped_key) = marshal(res.val.encapped_key)

C7_Witness ==
    /\ kat # None
    /\ Unwrap(kat).res.ok
    /\ Unwrap(kat).tv.mode = 2
    /\ Unwrap(kat).tv.sk_eph # Unwrap(kat).tv.sk_recip
    /\ Unwrap(kat).tv.sk_sender = Some(Unwrap(kat).tv.sk_recip)
    /\ marshal(Unwrap(kat).res.val.encapped_key) = Unwrap(kat).tv.pk_eph

\* ------------------------------------------------- sequence counter: C8

Distinct(seq) == \A i, j \in 1..Len(seq) : i # j => seq[i] # seq[j]

FirstUses(used) ==
    SubSeq(used, 1, IF Len(used) < 2 ^ SeqBits THEN Len(used) ELSE 2 ^ SeqBits)

\* The first 2^64 AEAD calls of a context use 2^64 different nonces, and
\* the call after them, if the build lets seq wrap, the first nonce again
DistinctUntilWrap(used) ==
    /\ Distinct(FirstUses(used))
    /\ Len(used) > 2 ^ SeqBits => (build = Some(FALSE) /\ used[(2 ^ SeqBits) + 1] = used[1])

FromKeySchedule(ctx) ==
    /\ ctx.key.info.label = "key"
    /\ ctx.key.len = Nk(suite.aead)
    /\ ctx.base_nonce.info.label = "nonce"
    /\ ctx.base_nonce.len = Nn
    /\ ctx.exporter_secret.info.label = "exp"
    /\ ctx.exporter_secret.len = Nh(suite.kdf)
    /\ ctx.key.prk = ctx.base_nonce.prk
    /\ ctx.key.prk = ctx.exporter_secret.prk

\* A step leaves key, base_nonce and exporter_secret alone
KeepsKey(old, new) ==
    /\ new.key = old.key
    /\ new.base_nonce = old.base_nonce
    /\ new.exporter_secret = old.exporter_secret

\* A step leaves key, base_nonce and exporter_secret alone and does not
\* decrease seq
KeepsKeyMaterial(old, new) ==
    /\ KeepsKey(old, new)
    /\ new.seq >= old.seq

SeqAdvances(old, new) ==
    \/ new.seq >= old.seq
    \/ (build' = Some(FALSE) /\ old.seq = SeqMax /\ new.seq = 0)

Zero(n) == [i \in 1..n |-> 0]

\* The context of the reference key schedule for a run: the three suite
\* identifiers in two octets each, most significant first, the mode
\* identifier in one octet, then the hash of the PSK id and the hash of info
ReferenceContext(run) ==
    LET kdf == suite.kdf
        kem_id == << KEM_ID \div 256, KEM_ID % 256 >>
        kdf_id == << KDF_ID(kdf) \div 256, KDF_ID(kdf) % 256 >>
        aead_id == << AEAD_ID(suite.aead) \div 256, AEAD_ID(suite.aead) % 256 >>
    IN  kem_id \o kdf_id \o aead_id \o << run.mode_id >>
        \o as_slice(kdf, labeled_extract(kdf, Zero(Nh(kdf)), "pskID_hash", run.psk_id))
        \o as_slice(kdf, labeled_extract(kdf, Zero(Nh(kdf)), "info", run.info))

\* The secret of the reference key schedule for a run
ReferenceSecret(run) ==
    LET kdf == suite.kdf
        extracted_psk == labeled_extract(kdf, Zero(Nh(kdf)), "psk_hash", run.psk_bytes)
    IN  labeled_extract(kdf, extracted_psk, "zz", run.shared_secret)

\* C11: every run of derive_enc_ctx returns a context whose key, base_nonce
\* and exporter_secret are LabeledExpand(secret_prk, label, context, len) for
\* ("key", Nk), ("nonce", Nn), ("exp", Nh), with secret_prk =
\* LabeledExtract(LabeledExtract(zero(Nh), "psk_hash", psk_bytes), "zz",
\* shared_secret) and context = KEM_ID || KDF_ID || AEAD_ID (two octets each,
\* big-endian) || mode_id (one octet) || LabeledExtract(zero(Nh),
\* "pskID_hash", psk_id) || LabeledExtract(zero(Nh), "info", info), of
\* 7 + 2*Nh octets; the three share the secret and the context.
C11_ReferenceKeySchedule ==
    \A i \in 1..Len(ks) :
        LET run == ks[i]
            kdf == suite.kdf
            context == ReferenceContext(run)
            secret_prk == ReferenceSecret(run)
            ctx == run.out.val
        IN  /\ run.out.ok
            /\ ctx.key = labeled_expand(kdf, secret_prk, "key", context, Nk(suite.aead)).val
            /\ ctx.base_nonce = labeled_expand(kdf, secret_prk, "nonce", context, Nn).val
            /\ ctx.exporter_secret = labeled_expand(kdf, secret_prk, "exp", context, Nh(kdf)).val
            /\ Len(ctx.key.info.info) = 7 + 2 * Nh(kdf)
            /\ ctx.base_nonce.info.info = ctx.key.info.info
            /\ ctx.exporter_secret.info.info = ctx.key.info.info
            /\ ctx.base_nonce.prk = ctx.key.prk
            /\ ctx.exporter_secret.prk = ctx.key.prk

C11_Witness ==
    /\ pc = "ks_receiver"
    /\ suite = [aead |-> "ChaCha20Poly1305", kdf |-> "HkdfSha512"]
    /\ ks[1].mode_id = 3
    /\ ks[1].psk_id = << 1 >>
    /\ ks[1].info = << 1 >>
    /\ ks[2].mode_id = 0
    /\ ks[2].info = << >>
    /\ ks[1].out.ok
    /\ ks[2].out.ok
    /\ Len(ks[1].out.val.key.info.info) = 135
    /\ SubSeq(ks[1].out.val.key.info.info, 1, 7) = << 0, 32, 0, 3, 0, 3, 3 >>
    /\ SubSeq(ks[2].out.val.key.info.info, 1, 7) = << 0, 32, 0, 3, 0, 3, 0 >>

\* ------------------------------------------------------------ setup: C12

\* The modes that authenticate the sender
AuthKinds == {"Auth", "AuthPsk"}

\* What the key schedule is to be run on: the mode, a shared secret, info
FedRun(mode, shared_secret, info) ==
    [mode_id |-> mode_id(mode),
     psk_bytes |-> get_psk_bytes(suite.kdf, mode),
     psk_id |-> get_psk_id(mode),
     shared_secret |-> shared_secret,
     info |-> info]

\* The context is the key schedule's for the run
FedToKeySchedule(ctx, run) ==
    /\ ctx.key.prk = ReferenceSecret(run)
    /\ ctx.base_nonce.prk = ReferenceSecret(run)
    /\ ctx.exporter_secret.prk = ReferenceSecret(run)
    /\ ctx.key.info.info = ReferenceContext(run)
    /\ ctx.base_nonce.info.info = ReferenceContext(run)
    /\ ctx.exporter_secret.info.info = ReferenceContext(run)

\* C12: setup_sender encapsulates with the sender's identity keypair exactly
\* when the mode is Auth or AuthPsk, and without one for Base and Psk;
\* setup_receiver hands the sender's public identity key to decap exactly
\* when its mode is Auth or AuthPsk; each succeeds exactly when that
\* encap / decap does, and its context is the key schedule's for that shared
\* secret, the same mode and the caller's info.
C12_AuthIffIdentityKey ==
    /\ sOut # None =>
          LET mode == SIn.mode
              k == IF mode.kind \in AuthKinds
                   THEN encap_with_eph(SIn.pk_recip, Some(Unwrap(mode.id)), SIn.sk_eph)
                   ELSE encap_with_eph(SIn.pk_recip, None, SIn.sk_eph)
          IN  /\ IsSome(mode.id) <=> mode.kind \in AuthKinds
              /\ SRes.ok = k.ok
              /\ SRes.ok =>
                    /\ SRes.val.encapped_key = k.val.encapped_key
                    /\ FedToKeySchedule(CtxS, FedRun(mode, k.val.shared_secret, SIn.info))
    /\ rOut # None =>
          LET mode == RIn.mode
              k == IF mode.kind \in AuthKinds
                   THEN decap(RIn.sk_recip, Some(Unwrap(mode.id)), RIn.encapped_key)
                   ELSE decap(RIn.sk_recip, None, RIn.encapped_key)
          IN  /\ IsSome(mode.id) <=> mode.kind \in AuthKinds
              /\ RRes.ok = k.ok
              /\ RRes.ok => FedToKeySchedule(CtxR, FedRun(mode, k.val, RIn.info))

\* An authenticating sender and a receiver that does not authenticate, all
\* else matching: the two shared secrets differ
C12_Witness ==
    /\ pc = "received"
    /\ SOk
    /\ ROk
    /\ SIn.mode.kind = "Auth"
    /\ RIn.mode.kind = "Base"
    /\ sk_to_pk(RIn.sk_recip) = SIn.pk_recip
    /\ RIn.encapped_key = SRes.val.encapped_key
    /\ RIn.info = SIn.info
    /\ CtxS.key.prk.ikm.ikm # CtxR.key.prk.ikm.ikm
    /\ CtxS.key.prk.ikm.ikm =
          encap_with_eph(SIn.pk_recip, SIn.mode.id, SIn.sk_eph).val.shared_secret

\* ------------------------------------------------------ key schedule: C13

\* The sender's and the receiver's run of the key schedule
KsS == ks[1]
KsR == ks[2]

\* Both runs were done, on the same shared secret and info
SameSecretAndInfo ==
    /\ pc = "ks_receiver"
    /\ KsS.out.ok
    /\ KsR.out.ok
    /\ KsS.shared_secret = KsR.shared_secret
    /\ KsS.info = KsR.info

\* The two modes differ in what the key schedule reads of a mode
ModesDiffer ==
    \/ KsS.mode_id # KsR.mode_id
    \/ KsS.psk_bytes # KsR.psk_bytes
    \/ KsS.psk_id # KsR.psk_id

\* A Psk-mode sender with the all-zero PSK and the empty PSK id, and a
\* Base-mode receiver
ZeroPskAgainstBase ==
    /\ KsS.mode_id = 1
    /\ KsS.psk_bytes = Zero(Nh(suite.kdf))
    /\ KsS.psk_id = << >>
    /\ KsR.mode_id = 0

\* C13: for one cipher suite, shared secret and info, two runs of the key
\* schedule whose modes differ in mode_id, in the PSK or in the PSK id give
\* contexts that are not byte-equal: the receiver has neither the sender's
\* key nor its base_nonce nor its exporter_secret, while with equal mode_id,
\* PSK and PSK id it has all three.  A Psk-mode sender with PSK zero(Nh) and
\* empty PSK id against a Base-mode receiver is such a pair: the two runs
\* have the same secret, and contexts that differ in the mode_id octet only.
C13_ModeAndPskBinding ==
    SameSecretAndInfo =>
        LET ctxS == KsS.out.val
            ctxR == KsR.out.val
        IN  /\ ModesDiffer =>
                  /\ ~aead_ctx_eq(ctxS, ctxR)
                  /\ ctxS.key # ctxR.key
                  /\ ctxS.base_nonce # ctxR.base_nonce
                  /\ ctxS.exporter_secret # ctxR.exporter_secret
            /\ ~ModesDiffer => aead_ctx_eq(ctxS, ctxR)
            /\ ZeroPskAgainstBase =>
                  /\ ModesDiffer
                  /\ ctxS.key.prk = ctxR.key.prk
                  /\ Len(ctxS.key.info.info) = Len(ctxR.key.info.info)
                  /\ \A i \in 1..Len(ctxS.key.info.info) :
                        (ctxS.key.info.info[i] # ctxR.key.info.info[i]) <=> i = 7

C13_Witness ==
    /\ SameSecretAndInfo
    /\ ZeroPskAgainstBase
    /\ KsS.out.val.key # KsR.out.val.key
    /\ KsS.out.val.key.prk = KsR.out.val.key.prk
    /\ KsS.out.val.key.info.info[7] = 1
    /\ KsR.out.val.key.info.info[7] = 0

====
